---- MODULE Spec2Model ----
(***************************************************************************)
(* Model of the acquisition-and-analysis pipeline of LyricMood-AI:         *)
(*   - RateLimiter and GeniusAPIService (src/services/genius_service.py)   *)
(*   - GeniusAPICache                   (src/services/genius_service.py)   *)
(*   - AnalysisSession, EmotionAnalysisResult                              *)
(*                                      (src/models/emotion_analysis.py)   *)
(*   - GroqAIService                    (src/services/ai_analysis_service) *)
(*                                                                         *)
(* Time is counted in clock ticks; one second is TicksPerSecond ticks, so  *)
(* that int(seconds) truncation is visible.  Every datetime.now() of the   *)
(* code is a read of the clock; a later read of the same handler may see   *)
(* a later time (up to MaxDrift ticks later).                              *)
(***************************************************************************)
EXTENDS Integers, Sequences, FiniteSets, TLC

VARIABLES
    now,            \* the wall clock, in ticks
    max_requests,   \* RateLimiter.max_requests
    requests,       \* RateLimiter.requests: list of timestamps
    recorded,       \* history: every timestamp record_request ever appended
    call,           \* the last operation of the catalog client and its outcome
    cache,          \* GeniusAPICache._cache: entries in insertion order
    stored,         \* history: per key, the last value set and what became of it
    hits,           \* history: the keys read with a hit since they were stored
    cacheCall,      \* the last operation of the cache and its outcome
    session,        \* an AnalysisSession
    sessionCall,    \* the last operation on the session and its argument
    analysis,       \* the last call of the analysis service: inputs and outcome
    fetch,          \* the last find_and_fetch_song or _similarity_score call
    cachedCall,     \* the last call of the cached catalog client and its outcome
    use_cache,      \* EmotionAnalysisService.use_cache
    resultCache,    \* EmotionAnalysisService._cache: lyrics hash -> result
    analysed,       \* history: per lyrics text, the result stored for it, by
                    \* which song and when, since the cache was last cleared
    songCall        \* the last analyze_song call and its outcome

limiterVars == <<max_requests, requests, recorded, call>>
cacheVars == <<cache, stored, hits, cacheCall>>
sessionVars == <<session, sessionCall>>

songVars == <<use_cache, resultCache, analysed, songCall>>
pipelineVars == <<fetch, cachedCall, songVars>>

vars == <<now, limiterVars, cacheVars, sessionVars, analysis, pipelineVars>>

-----------------------------------------------------------------------------
(* Bounds of the model *)

TicksPerSecond == 2
TimeWindow == 1
MaxTime == 5
MaxDrift == 2
MaxRecords == 3

\* RateLimiter.time_window, in ticks
W == TimeWindow * TicksPerSecond

\* values of GENIUS_RATE_LIMIT (requests per hour) the configuration is run with
RateLimitConfigs == {30, 60, 120}

\* self.get_int("GENIUS_RATE_LIMIT", 5000)
DefaultRateLimit == 5000

Min(a, b) == IF a <= b THEN a ELSE b

\* a later read of the clock by the same handler
Later(t) == t .. Min(t + MaxDrift, MaxTime)

-----------------------------------------------------------------------------
(* Exceptions: src/core/exceptions.py *)

ExceptionBase(k) ==
    CASE k = "GeniusAPIError"      -> "APIError"
      [] k = "GroqAPIError"        -> "APIError"
      [] k = "RateLimitError"      -> "APIError"
      [] k = "AuthenticationError" -> "APIError"
      [] k = "APIError"            -> "LyricMoodBaseException"
      [] k = "NetworkError"        -> "LyricMoodBaseException"
      [] k = "AnalysisError"       -> "LyricMoodBaseException"
      [] k = "ValidationError"     -> "LyricMoodBaseException"
      [] k = "LyricsNotFoundError" -> "LyricMoodBaseException"
      [] OTHER                     -> "Exception"

\* isinstance(e, classes) for an exception of class k
IsInstance(k, classes) ==
    \/ k \in classes
    \/ ExceptionBase(k) \in classes
    \/ ExceptionBase(ExceptionBase(k)) \in classes
    \/ ExceptionBase(ExceptionBase(ExceptionBase(k))) \in classes

-----------------------------------------------------------------------------
(* RateLimiter *)

\* min(config.genius_rate_limit // 60, 60)
MaxRequestsOf(rate) == Min(rate \div 60, 60)

InWindowInclusive(t, req_time) == t - req_time <= W

\* now - req_time < timedelta(seconds=self.time_window)
InWindow(t, req_time) == t - req_time < W

Prune(reqs, t) == SelectSeq(reqs, LAMBDA r : InWindow(t, r))

SeqMin(s) == CHOOSE m \in {s[i] : i \in DOMAIN s} : \A i \in DOMAIN s : m <= s[i]

CanMakeRequestOffByOne(reqs, t) ==
    [reqs |-> Prune(reqs, t), ret |-> Len(Prune(reqs, t)) <= max_requests]

\* can_make_request with the clock reading t: the pruned list and the answer
CanMakeRequest(reqs, t) ==
    [reqs |-> Prune(reqs, t), ret |-> Len(Prune(reqs, t)) < max_requests]

\* time_until_next_request: can_make_request reads the clock as t1, the final
\* datetime.now() reads it as t2.  min() of an empty list raises ValueError.
TimeUntilNextRequest(reqs, t1, t2) ==
    LET c == CanMakeRequest(reqs, t1) IN
    IF c.ret THEN [reqs |-> c.reqs, raised |-> "none", wait |-> 0]
    ELSE IF c.reqs = <<>> THEN [reqs |-> c.reqs, raised |-> "ValueError", wait |-> 0]
    ELSE [reqs |-> c.reqs, raised |-> "none", wait |-> SeqMin(c.reqs) + W - t2]

NoCall ==
    [op |-> "none", outcome |-> "none", admissible |-> FALSE, ret |-> FALSE,
     wait |-> 0, transport |-> "none", raised |-> "none", retry_after |-> -1,
     sent |-> 0, recorded |-> 0, t |-> 0]

NoCacheCall == [op |-> "none", key |-> "none", ret |-> "none", full |-> FALSE,
                evicted |-> "none", evictedWasRead |-> FALSE]

\* no call of the analysis service or of the result model is in progress
NoAnalysis == [op |-> "none"]

NoFetch == [op |-> "none"]
NoCachedCall == [op |-> "none"]
NoSongCall == [op |-> "none"]

Tick ==
    /\ now < MaxTime
    /\ now' = now + 1
    /\ call' = NoCall
    /\ cacheCall' = NoCacheCall
    /\ analysis' = NoAnalysis
    /\ fetch' = NoFetch
    /\ cachedCall' = NoCachedCall
    /\ songCall' = NoSongCall
    /\ UNCHANGED <<max_requests, requests, recorded, cache, stored, hits>>
    /\ UNCHANGED <<sessionVars, use_cache, resultCache, analysed>>

can_make_request ==
    LET c == CanMakeRequest(requests, now) IN
    /\ requests' = c.reqs
    /\ call' = [NoCall EXCEPT !.op = "can_make_request", !.ret = c.ret, !.t = now]
    /\ UNCHANGED <<now, max_requests, recorded, cacheVars, sessionVars, analysis, pipelineVars>>

record_request ==
    /\ Len(recorded) < MaxRecords
    /\ requests' = Append(requests, now)
    /\ recorded' = Append(recorded, now)
    /\ call' = [NoCall EXCEPT !.op = "record_request", !.t = now]
    /\ UNCHANGED <<now, max_requests, cacheVars, sessionVars, analysis, pipelineVars>>

time_until_next_request ==
    \E t2 \in Later(now) :
        LET r == TimeUntilNextRequest(requests, now, t2)
            admissible == CanMakeRequest(requests, now).ret IN
        /\ requests' = r.reqs
        /\ now' = IF admissible THEN now ELSE t2
        /\ call' = [NoCall EXCEPT !.op = "time_until_next_request",
                                  !.admissible = admissible,
                                  !.raised = r.raised, !.wait = r.wait,
                                  !.t = now]
        /\ UNCHANGED <<max_requests, recorded, cacheVars, sessionVars, analysis, pipelineVars>>

-----------------------------------------------------------------------------
(* GeniusAPIService *)

\* what the HTTP GET of the session does: a status code, or a transport failure
HttpOutcomes == {"200", "401", "403", "404", "429", "500", "Timeout", "ConnectionError"}

\* response.headers.get('Retry-After', '60') when the header is absent
RetryAfterDefault == 60

\* the exception _make_request raises for a response with this status code
StatusError(outcome) ==
    CASE outcome = "200" -> "none"
      [] outcome = "401" -> "AuthenticationError"
      [] outcome = "403" -> "AuthenticationError"
      [] outcome = "404" -> "GeniusAPIError"
      [] outcome = "429" -> "RateLimitError"
      [] OTHER           -> "GeniusAPIError"

\* int(wait_time), wait_time in seconds: truncation toward zero
IntSeconds(ticks) ==
    IF ticks >= 0 THEN ticks \div TicksPerSecond ELSE -((-ticks) \div TicksPerSecond)

SendRequestRecordsAlways(reqs, t4, outcome, admissible, wait) ==
    [reqs |-> Append(reqs, t4),
     raised |-> IF outcome \in {"Timeout", "ConnectionError"}
                THEN "NetworkError" ELSE StatusError(outcome),
     retry_after |-> IF outcome = "429" THEN RetryAfterDefault ELSE -1,
     sent |-> 1, stamps |-> <<t4>>, admissible |-> admissible, wait |-> wait,
     tEnd |-> t4, outcome |-> outcome]

\* The part of _make_request after the rate-limit test: the GET, then
\* record_request with the clock reading t4, then the status code.  A timeout or
\* a connection error leaves the try block before record_request.
SendRequest(reqs, t4, outcome, admissible, wait) ==
    IF outcome \in {"Timeout", "ConnectionError"}
    THEN [reqs |-> reqs, raised |-> "NetworkError", retry_after |-> -1, sent |-> 1,
          stamps |-> <<>>, admissible |-> admissible, wait |-> wait, tEnd |-> t4,
          outcome |-> outcome]
    ELSE [reqs |-> Append(reqs, t4), raised |-> StatusError(outcome),
          retry_after |-> IF outcome = "429" THEN RetryAfterDefault ELSE -1,
          sent |-> 1, stamps |-> <<t4>>, admissible |-> admissible, wait |-> wait,
          tEnd |-> t4, outcome |-> outcome]

\* _make_request with the clock readings t1 (can_make_request), t2 and t3
\* (time_until_next_request) and t4 (record_request)
MakeRequest(reqs, t1, t2, t3, t4, outcome) ==
    LET c == CanMakeRequest(reqs, t1)
        w == TimeUntilNextRequest(c.reqs, t2, t3)
    IN  IF c.ret THEN SendRequest(c.reqs, t4, outcome, TRUE, 0)
        ELSE IF w.raised # "none"
        THEN [reqs |-> w.reqs, raised |-> w.raised, retry_after |-> -1, sent |-> 0,
              stamps |-> <<>>, admissible |-> FALSE, wait |-> 0, tEnd |-> t2,
              outcome |-> "none"]
        ELSE IF w.wait > 0
        THEN [reqs |-> w.reqs, raised |-> "RateLimitError",
              retry_after |-> IntSeconds(w.wait), sent |-> 0, stamps |-> <<>>,
              admissible |-> FALSE, wait |-> w.wait, tEnd |-> t3, outcome |-> "none"]
        ELSE SendRequest(w.reqs, t4, outcome, FALSE, w.wait)

\* The clock readings <<t2, t3, t4>> of one _make_request that starts with the
\* clock at t1; a reading the run does not take repeats the one before it.
ClockReads(reqs, t1) ==
    LET c == CanMakeRequest(reqs, t1) IN
    IF c.ret THEN {<<t1, t1, t4>> : t4 \in Later(t1)}
    ELSE UNION {
        IF CanMakeRequest(c.reqs, t2).ret \/ Prune(c.reqs, t2) = <<>>
        THEN {<<t2, t2, t4>> : t4 \in Later(t2)}
        ELSE UNION {
            IF SeqMin(Prune(c.reqs, t2)) + W - t3 > 0
            THEN {<<t2, t3, t3>>}
            ELSE {<<t2, t3, t4>> : t4 \in Later(t3)} : t3 \in Later(t2)}
        : t2 \in Later(t1)}

\* every way one _make_request can go from the limiter state reqs at time t1
Runs(reqs, t1) ==
    {MakeRequest(reqs, t1, rd[1], rd[2], rd[3], o) :
        rd \in ClockReads(reqs, t1), o \in HttpOutcomes}

\* the limiter, the history and the clock after a request r
Requested(r) ==
    /\ Len(recorded) + Len(r.stamps) <= MaxRecords
    /\ requests' = r.reqs
    /\ recorded' = recorded \o r.stamps
    /\ now' = r.tEnd
    /\ UNCHANGED <<max_requests, cacheVars, sessionVars, analysis, pipelineVars>>

CallOf(op, r, raised) ==
    [NoCall EXCEPT !.op = op, !.outcome = r.outcome, !.admissible = r.admissible,
                   !.wait = r.wait, !.transport = r.raised, !.raised = raised,
                   !.retry_after = r.retry_after, !.sent = r.sent,
                   !.recorded = Len(r.stamps), !.t = r.tEnd]

_make_request ==
    \E r \in Runs(requests, now) :
        /\ Requested(r)
        /\ call' = CallOf("_make_request", r, r.raised)

\* except Exception as e: if isinstance(e, (GeniusAPIError, NetworkError,
\* RateLimitError)): raise; raise GeniusAPIError(...)
CatalogReraise(k) ==
    IF k = "none" THEN "none"
    ELSE IF IsInstance(k, {"GeniusAPIError", "NetworkError", "RateLimitError"}) THEN k
    ELSE "GeniusAPIError"

\* the shapes of a 200 response body that the callers tell apart
Bodies == {"valid", "malformed"}

\* the bodies a request r can deliver: only a 200 response is read
BodiesOf(r) == IF r.raised = "none" THEN Bodies ELSE {"valid"}

\* search_songs(query, limit) for a non-empty query: a body without 'response' or
\* 'hits' fails validate_genius_search_response with ValidationError
SearchRaised(r, body) ==
    CatalogReraise(IF r.raised # "none" THEN r.raised
                   ELSE IF body = "malformed" THEN "ValidationError" ELSE "none")

search_songs ==
    \E r \in Runs(requests, now) : \E body \in BodiesOf(r) :
        /\ Requested(r)
        /\ call' = CallOf("search_songs", r, SearchRaised(r, body))

\* get_song_details(song_id) for a positive song_id: a body without song data
\* raises GeniusAPIError inside the try block
DetailsRaised(r, body) ==
    CatalogReraise(IF r.raised # "none" THEN r.raised
                   ELSE IF body = "malformed" THEN "GeniusAPIError" ELSE "none")

get_song_details ==
    \E r \in Runs(requests, now) : \E body \in BodiesOf(r) :
        /\ Requested(r)
        /\ call' = CallOf("get_song_details", r, DetailsRaised(r, body))

-----------------------------------------------------------------------------
(* GeniusAPICache *)

CacheKeys == {"k1", "k2", "k3"}
CacheValues == {"a", "b"}

\* GeniusAPICache.max_size and ttl_seconds, scaled down
MaxSize == 2
CacheTtl == 1

\* timedelta(seconds=self.ttl_seconds), in ticks
Ttl == CacheTtl * TicksPerSecond

KeysOf(c) == {c[i].key : i \in DOMAIN c}

IndexOf(c, key) == CHOOSE i \in DOMAIN c : c[i].key = key

Remove(c, i) == SubSeq(c, 1, i - 1) \o SubSeq(c, i + 1, Len(c))

NewestIndex(c) ==
    CHOOSE i \in DOMAIN c : \A j \in DOMAIN c :
        c[i].ts > c[j].ts \/ (c[i].ts = c[j].ts /\ i <= j)

\* min(self._cache.keys(), key=lambda k: self._cache[k][1]): the first entry, in
\* insertion order, among those with the smallest timestamp
OldestIndex(c) ==
    CHOOSE i \in DOMAIN c : \A j \in DOMAIN c :
        c[i].ts < c[j].ts \/ (c[i].ts = c[j].ts /\ i <= j)

\* datetime.now() - timestamp > timedelta(seconds=self.ttl_seconds)
Expired(t, ts) == t - ts > Ttl

CacheGetKeepsExpired(c, key, t) ==
    IF key \notin KeysOf(c) THEN [cache |-> c, ret |-> "None"]
    ELSE IF Expired(t, c[IndexOf(c, key)].ts) THEN [cache |-> c, ret |-> "None"]
    ELSE [cache |-> c, ret |-> c[IndexOf(c, key)].value]

\* get(key) with the clock reading t: the cache afterwards and the value returned
CacheGet(c, key, t) ==
    IF key \notin KeysOf(c) THEN [cache |-> c, ret |-> "None"]
    ELSE IF Expired(t, c[IndexOf(c, key)].ts)
         THEN [cache |-> Remove(c, IndexOf(c, key)), ret |-> "None"]
    ELSE [cache |-> c, ret |-> c[IndexOf(c, key)].value]

\* the key set() deletes before it stores, "none" below capacity
EvictedKey(c) == IF Len(c) >= MaxSize THEN c[OldestIndex(c)].key ELSE "none"

CacheSetWithoutEviction(c, key, value, t) ==
    LET e == [key |-> key, value |-> value, ts |-> t]
    IN  IF key \in KeysOf(c) THEN [c EXCEPT ![IndexOf(c, key)] = e]
        ELSE Append(c, e)

\* set(key, value) with the clock reading t; a dict keeps the place of a key it
\* already holds
CacheSet(c, key, value, t) ==
    LET c1 == IF Len(c) >= MaxSize THEN Remove(c, OldestIndex(c)) ELSE c
        e == [key |-> key, value |-> value, ts |-> t]
    IN  IF key \in KeysOf(c1) THEN [c1 EXCEPT ![IndexOf(c1, key)] = e]
        ELSE Append(c1, e)

NotStored == [state |-> "none", value |-> "none", ts |-> 0]

get ==
    \E key \in CacheKeys :
        LET g == CacheGet(cache, key, now) IN
        /\ cache' = g.cache
        /\ hits' = IF g.ret # "None" THEN hits \cup {key} ELSE hits
        /\ cacheCall' = [NoCacheCall EXCEPT !.op = "get", !.key = key, !.ret = g.ret]
        /\ UNCHANGED <<now, stored, limiterVars, sessionVars, analysis, pipelineVars>>

set ==
    \E key \in CacheKeys : \E value \in CacheValues :
        LET ev == EvictedKey(cache) IN
        /\ cache' = CacheSet(cache, key, value, now)
        /\ stored' = [k \in CacheKeys |->
                        IF k = key THEN [state |-> "set", value |-> value, ts |-> now]
                        ELSE IF k = ev THEN NotStored
                        ELSE stored[k]]
        /\ hits' = hits \ {key, ev}
        /\ cacheCall' = [NoCacheCall EXCEPT !.op = "set", !.key = key,
                                            !.full = (Len(cache) >= MaxSize),
                                            !.evicted = ev,
                                            !.evictedWasRead = (ev \in hits)]
        /\ UNCHANGED <<now, limiterVars, sessionVars, analysis, pipelineVars>>

clear ==
    /\ cache' = <<>>
    /\ stored' = [k \in CacheKeys |-> NotStored]
    /\ hits' = {}
    /\ cacheCall' = [NoCacheCall EXCEPT !.op = "clear"]
    /\ UNCHANGED <<now, limiterVars, sessionVars, analysis, pipelineVars>>

InitCache ==
    /\ cache = <<>>
    /\ stored = [k \in CacheKeys |-> NotStored]
    /\ hits = {}
    /\ cacheCall = NoCacheCall

-----------------------------------------------------------------------------
(* AnalysisSession *)

\* the results and error messages a caller passes
Results == {"r1", "r2"}
Messages == {"e1", "e2"}

\* AnalysisSession(session_id, song, status=AnalysisStatus.IN_PROGRESS): every
\* construction in main.py and streamlit_app.py passes IN_PROGRESS, the
\* dataclass default PENDING is never used
NewSessionStatuses == {"in_progress"}

NewSessionAt(status, t) ==
    [status |-> status, analysis_result |-> "None", error_message |-> "None",
     started_at |-> t, completed_at |-> -1]

MarkCompleted(s, analysis_result, t) ==
    [s EXCEPT !.analysis_result = analysis_result, !.completed_at = t,
              !.status = "completed", !.error_message = "None"]

MarkFailedKeepsResult(s, error_message, t) ==
    [s EXCEPT !.error_message = error_message, !.completed_at = t,
              !.status = "failed"]

MarkFailed(s, error_message, t) ==
    [s EXCEPT !.error_message = error_message, !.completed_at = t,
              !.status = "failed", !.analysis_result = "None"]

MarkCached(s, analysis_result, t) ==
    [s EXCEPT !.analysis_result = analysis_result, !.completed_at = t,
              !.status = "cached", !.error_message = "None"]

NewSession ==
    \E status \in NewSessionStatuses :
        /\ session' = NewSessionAt(status, now)
        /\ sessionCall' = [op |-> "AnalysisSession", arg |-> "none"]
        /\ UNCHANGED <<now, limiterVars, cacheVars, analysis, pipelineVars>>

mark_completed ==
    \E analysis_result \in Results :
        /\ session' = MarkCompleted(session, analysis_result, now)
        /\ sessionCall' = [op |-> "mark_completed", arg |-> analysis_result]
        /\ UNCHANGED <<now, limiterVars, cacheVars, analysis, pipelineVars>>

mark_failed ==
    \E error_message \in Messages :
        /\ session' = MarkFailed(session, error_message, now)
        /\ sessionCall' = [op |-> "mark_failed", arg |-> error_message]
        /\ UNCHANGED <<now, limiterVars, cacheVars, analysis, pipelineVars>>

mark_cached ==
    \E analysis_result \in Results :
        /\ session' = MarkCached(session, analysis_result, now)
        /\ sessionCall' = [op |-> "mark_cached", arg |-> analysis_result]
        /\ UNCHANGED <<now, limiterVars, cacheVars, analysis, pipelineVars>>

\* AnalysisSession.is_successful
IsSuccessful(s) ==
    /\ s.status = "completed"
    /\ s.analysis_result # "None"
    /\ s.error_message = "None"

\* AnalysisHistory.successful_sessions_count for a history holding the given
\* sessions
SuccessfulSessionsCount(sessions) ==
    Cardinality({i \in DOMAIN sessions : IsSuccessful(sessions[i])})

\* AnalysisHistory.success_rate, as a fraction; 0.0 for an empty history
SuccessRate(sessions) ==
    IF sessions = <<>> THEN [num |-> 0, den |-> 1]
    ELSE [num |-> SuccessfulSessionsCount(sessions), den |-> Len(sessions)]

InitSession ==
    /\ \E status \in NewSessionStatuses : session = NewSessionAt(status, 0)
    /\ sessionCall = [op |-> "AnalysisSession", arg |-> "none"]

-----------------------------------------------------------------------------
(* EmotionScore and EmotionAnalysisResult *)

\* EmotionCategory, in declaration order
Categories == <<"happiness", "sadness", "anger", "fear", "love">>
CategorySet == {Categories[i] : i \in 1..Len(Categories)}

\* round(self.score, 2) and round(confidence_float, 3)
ScoreDecimals == 2
ConfidenceDecimals == 3

\* Numbers are fixed-point, one decimal digit finer than the finest rounding:
\* the value x is the integer x * Unit.
Unit == 10 ^ (ConfidenceDecimals + 1)

\* JSON values of a payload field: absent, a number, or a string that float()
\* rejects
Missing == [kind |-> "missing", v |-> 0]
Text == [kind |-> "text", v |-> 0]
Num(v) == [kind |-> "num", v |-> v]

\* round(x, decimals) of a non-negative x (the inputs below are never half-way)
Round(x, decimals) ==
    LET q == 10 ^ (ConfidenceDecimals + 1 - decimals)
    IN  ((x + q \div 2) \div q) * q

\* float(value)
Float(value) ==
    IF value.kind = "num"
    THEN [raised |-> "none", v |-> value.v]
    ELSE [raised |-> "ValueError", v |-> 0]

\* dict.get(key, default)
Get(value, default) == IF value.kind = "missing" THEN default ELSE value

EmotionScoreUnchecked(score_value) ==
    LET f == Float(score_value) IN
    IF f.raised # "none" THEN f
    ELSE [raised |-> "none", v |-> Round(f.v, ScoreDecimals)]

\* EmotionScore(emotion, score=float(score_value)).__post_init__
EmotionScore(score_value) ==
    LET f == Float(score_value) IN
    IF f.raised # "none" THEN f
    ELSE IF ~(0 <= f.v /\ f.v <= 100 * Unit) THEN [raised |-> "ValueError", v |-> 0]
    ELSE [raised |-> "none", v |-> Round(f.v, ScoreDecimals)]

\* max(keys, key=score) over keys iterated in the given order: the first key
\* holding the largest score
ArgMax(order, scores) ==
    LET i == CHOOSE i \in 1..Len(order) :
                 /\ \A j \in 1..Len(order) : scores[order[j]] <= scores[order[i]]
                 /\ \A j \in 1..(i - 1) : scores[order[j]] < scores[order[i]]
    IN  order[i]

\* EmotionAnalysisValidator.validate_confidence_score
ValidateConfidence(confidence) ==
    LET f == Float(confidence) IN
    IF f.raised # "none" THEN [raised |-> "ValidationError", v |-> 0]
    ELSE IF ~(0 <= f.v /\ f.v <= Unit) THEN [raised |-> "ValidationError", v |-> 0]
    ELSE [raised |-> "none", v |-> Round(f.v, ConfidenceDecimals)]

NoResult == [emotion_scores |-> <<>>, dominant_emotion |-> "None", overall_confidence |-> 0]

Raise(k) == [raised |-> k, result |-> NoResult]

PostInitKeepsDominant(order, emotion_scores, dominant_emotion, overall_confidence) ==
    LET c == ValidateConfidence(overall_confidence) IN
    IF c.raised # "none" THEN Raise(c.raised)
    ELSE IF DOMAIN emotion_scores # CategorySet THEN Raise("ValueError")
    ELSE [raised |-> "none",
          result |-> [emotion_scores |-> emotion_scores,
                      dominant_emotion |-> dominant_emotion,
                      overall_confidence |-> c.v]]

\* EmotionAnalysisResult.__post_init__; order is the iteration order of the
\* emotion_scores dict
PostInit(order, emotion_scores, dominant_emotion, overall_confidence) ==
    LET c == ValidateConfidence(overall_confidence) IN
    IF c.raised # "none" THEN Raise(c.raised)
    ELSE IF DOMAIN emotion_scores # CategorySet THEN Raise("ValueError")
    ELSE [raised |-> "none",
          result |-> [emotion_scores |-> emotion_scores,
                      dominant_emotion |-> ArgMax(order, emotion_scores),
                      overall_confidence |-> c.v]]

\* str.lower() on the strings and words of the model
Lower(str) ==
    CASE str = "LOVE" -> "love"
      [] str = "A" -> "a"
      [] str = "X" -> "x"
      [] OTHER -> str

\* the dominant_emotion field of a payload: absent, a category name in lower or
\* upper case, a string that names no category, or a JSON value that is not a
\* string
DominantInputs == {"missing", "sadness", "LOVE", "joy", "not_a_string"}

\* EmotionAnalysisResult.from_api_response
FromApiResponse(api_response) ==
    LET built == [c \in CategorySet |->
                     EmotionScore(Get(api_response.scores[c], Num(0)))]
        emotion_scores == [c \in CategorySet |-> built[c].v]
        given == api_response.dominant_emotion
        dominant_emotion_str == IF given = "missing" THEN "" ELSE Lower(given)
        dominant_emotion ==
            IF dominant_emotion_str \in CategorySet
            THEN dominant_emotion_str
            ELSE ArgMax(Categories, emotion_scores)
    IN  IF \E c \in CategorySet : built[c].raised # "none" THEN Raise("ValueError")
        ELSE IF given = "not_a_string" THEN Raise("AttributeError")
        ELSE PostInit(Categories, emotion_scores, dominant_emotion,
                      Get(api_response.confidence, Num(0)))

\* score and confidence fields of the payloads of the model
ScoreInputs == {Missing, Text, Num(80 * Unit - 4), Num(100 * Unit + 4)}
ConfidenceInputs == {Missing, Text, Num(Unit - 4), Num(Unit + 1)}

Payloads ==
    [scores : [CategorySet -> ScoreInputs],
     dominant_emotion : DominantInputs,
     confidence : ConfidenceInputs]

from_api_response ==
    /\ analysis = NoAnalysis
    /\ \E api_response \in Payloads :
        LET r == FromApiResponse(api_response) IN
        analysis' = [op |-> "from_api_response", payload |-> api_response,
                     raised |-> r.raised, result |-> r.result]
    /\ UNCHANGED <<now, limiterVars, cacheVars, sessionVars, pipelineVars>>

\* the dicts of EmotionScore objects a caller passes to the constructor: scores
\* already validated and rounded, under keys that need not be the categories
ScoresGiven == {20 * Unit, 80 * Unit}
KeySets == {CategorySet, CategorySet \ {"love"}, CategorySet \cup {"joy"}}
Orders == {Categories, <<"love", "fear", "anger", "sadness", "happiness">>}

\* EmotionAnalysisResult(emotion_scores, dominant_emotion, overall_confidence)
EmotionAnalysisResult ==
    /\ analysis = NoAnalysis
    /\ \E keys \in KeySets, order \in Orders, dominant_emotion \in CategorySet,
          overall_confidence \in ConfidenceInputs \ {Missing} :
        \E emotion_scores \in [keys -> ScoresGiven] :
            LET r == PostInit(order, emotion_scores, dominant_emotion,
                              overall_confidence) IN
            analysis' = [op |-> "EmotionAnalysisResult",
                         payload |-> [scores |-> emotion_scores,
                                      dominant_emotion |-> dominant_emotion,
                                      confidence |-> overall_confidence],
                         raised |-> r.raised, result |-> r.result]
    /\ UNCHANGED <<now, limiterVars, cacheVars, sessionVars, pipelineVars>>

InitAnalysis == analysis = NoAnalysis

-----------------------------------------------------------------------------
(* GroqAIService *)

\* how a category's fallback keywords occur in the content: not at all, as a
\* word of their own, or only inside a longer word
Occurrences == {"absent", "token", "substring"}
Contents == [CategorySet -> Occurrences]
NoContent == [c \in CategorySet |-> "absent"]
NoPayload == [scores |-> [c \in CategorySet |-> Missing],
              dominant_emotion |-> "missing", confidence |-> Missing]

\* A response body of the chat endpoint, by what _parse_analysis_response finds
\* in it: no choices; a choice whose message is null; empty content; content
\* without a {...} match; a match that json.loads rejects before and after
\* _fix_json_format; a match that loads only after _fix_json_format; a match that
\* loads as it is.
ErrorShapes == {"no_choices", "null_message", "empty_content"}
FallbackShapes == {"no_json", "invalid_json"}
JsonShapes == {"repairable", "json"}

Responses ==
    {[shape |-> sh, payload |-> NoPayload, content |-> NoContent] :
        sh \in ErrorShapes}
    \cup [shape : FallbackShapes, payload : {NoPayload}, content : Contents]
    \cup [shape : JsonShapes, payload : Payloads, content : {NoContent}]

KeywordFoundAsToken(content, c) == content[c] = "token"

\* word in content_lower, for some word of the category's list
KeywordFound(content, c) == content[c] \in {"token", "substring"}

\* _create_fallback_response
CreateFallbackResponse(content) ==
    LET emotion_scores ==
            [c \in CategorySet |->
                20 * Unit + (IF KeywordFound(content, c) THEN 30 * Unit ELSE 0)]
    IN  [scores |-> [c \in CategorySet |-> Num(emotion_scores[c])],
         dominant_emotion |-> ArgMax(Categories, emotion_scores),
         confidence |-> Num((6 * Unit) \div 10)]

\* _ensure_required_fields
EnsureRequiredFields(data) ==
    LET filled == [c \in CategorySet |-> Get(data.scores[c], Num(0))]
        scores == [c \in CategorySet |-> Float(filled[c])]
        confidence == Get(data.confidence, Num(Unit \div 2))
    IN  IF data.dominant_emotion # "missing"
        THEN [raised |-> "none",
              payload |-> [scores |-> filled,
                           dominant_emotion |-> data.dominant_emotion,
                           confidence |-> confidence]]
        ELSE IF \E c \in CategorySet : scores[c].raised # "none"
        THEN [raised |-> "ValueError", payload |-> NoPayload]
        ELSE [raised |-> "none",
              payload |-> [scores |-> filled,
                           dominant_emotion |->
                               ArgMax(Categories, [c \in CategorySet |-> scores[c].v]),
                           confidence |-> confidence]]

\* AnalysisConstants.MAX_LYRICS_LENGTH, scaled down
MaxLyricsLength == 3

\* lyrics as strings of characters, up to two characters longer than the limit
Chars == {"a", "b"}
LyricsStrings == UNION {[1..n -> Chars] : n \in 1..(MaxLyricsLength + 2)}

\* the "..." appended to truncated lyrics
Ellipsis == <<".", ".", ".">>

CreateAnalysisPromptUntruncated(lyrics) == lyrics

\* _create_analysis_prompt: the text that replaces {lyrics} in the template
CreateAnalysisPrompt(lyrics) ==
    IF Len(lyrics) > MaxLyricsLength
    THEN SubSeq(lyrics, 1, MaxLyricsLength) \o Ellipsis
    ELSE lyrics

_create_analysis_prompt ==
    /\ analysis = NoAnalysis
    /\ \E lyrics \in LyricsStrings :
        analysis' = [op |-> "_create_analysis_prompt", lyrics |-> lyrics,
                     embedded |-> CreateAnalysisPrompt(lyrics)]
    /\ UNCHANGED <<now, limiterVars, cacheVars, sessionVars, pipelineVars>>

\* the body of the try block of _parse_analysis_response
ParseBody(response_data) ==
    CASE response_data.shape = "no_choices" ->
            [raised |-> "AnalysisError", payload |-> NoPayload]
      [] response_data.shape = "null_message" ->
            [raised |-> "AttributeError", payload |-> NoPayload]
      [] response_data.shape = "empty_content" ->
            [raised |-> "AnalysisError", payload |-> NoPayload]
      [] response_data.shape \in FallbackShapes ->
            [raised |-> "none",
             payload |-> CreateFallbackResponse(response_data.content)]
      [] OTHER -> EnsureRequiredFields(response_data.payload)

ParseLeaksException(response_data) == ParseBody(response_data)

\* _parse_analysis_response: AnalysisError is re-raised, every other exception
\* is replaced by an AnalysisError
ParseAnalysisResponse(response_data) ==
    LET r == ParseBody(response_data) IN
    IF r.raised = "none" \/ IsInstance(r.raised, {"AnalysisError"})
    THEN r
    ELSE [raised |-> "AnalysisError", payload |-> NoPayload]

_parse_analysis_response ==
    /\ analysis = NoAnalysis
    /\ \E response_data \in Responses :
        LET r == ParseAnalysisResponse(response_data) IN
        analysis' = [op |-> "_parse_analysis_response",
                     response |-> response_data,
                     raised |-> r.raised, payload |-> r.payload]
    /\ UNCHANGED <<now, limiterVars, cacheVars, sessionVars, pipelineVars>>

\* what session.post does: a status code, or an exception of requests
GroqOutcomes == {"200", "400", "401", "403", "429", "500", "Timeout", "ConnectionError"}

\* GroqAIService._make_request: the exception it raises for an outcome
GroqRequestError(outcome) ==
    CASE outcome = "200" -> "none"
      [] outcome \in {"401", "403"} -> "AuthenticationError"
      [] outcome = "429" -> "RateLimitError"
      [] outcome \in {"Timeout", "ConnectionError"} -> "NetworkError"
      [] OTHER -> "GroqAPIError"

AnalysisReraiseUnwrapped(k) == k

\* the except clause of analyze_emotions
AnalysisReraise(k) ==
    IF IsInstance(k, {"GroqAPIError", "NetworkError", "RateLimitError", "AnalysisError"})
    THEN k
    ELSE "AnalysisError"

\* analyze_emotions with non-blank lyrics
AnalyzeEmotions(outcome, response_data) ==
    LET transport == GroqRequestError(outcome)
        parsed == ParseAnalysisResponse(response_data)
        built == FromApiResponse(parsed.payload)
    IN  IF transport # "none"
        THEN [transport |-> transport, payload |-> NoPayload,
              raised |-> AnalysisReraise(transport), result |-> NoResult]
        ELSE IF parsed.raised # "none"
        THEN [transport |-> "none", payload |-> NoPayload,
              raised |-> AnalysisReraise(parsed.raised), result |-> NoResult]
        ELSE IF built.raised # "none"
        THEN [transport |-> "none", payload |-> parsed.payload,
              raised |-> AnalysisReraise(built.raised), result |-> NoResult]
        ELSE [transport |-> "none", payload |-> parsed.payload,
              raised |-> "none", result |-> built.result]

NoResponse == [shape |-> "none", payload |-> NoPayload, content |-> NoContent]

\* lyrics that are not blank: some text without a fallback keyword, and a text
\* with the word "love" and no other fallback keyword
LyricsKinds == {"text", "love"}

analyze_emotions ==
    /\ analysis = NoAnalysis
    /\ \/ analysis' = [op |-> "analyze_emotions", lyrics |-> "blank",
                       outcome |-> "none", response |-> NoResponse, sent |-> 0,
                       transport |-> "none", payload |-> NoPayload,
                       raised |-> "AnalysisError", result |-> NoResult]
       \/ \E lyrics \in LyricsKinds, outcome \in GroqOutcomes :
            \E response_data \in
                    IF outcome = "200" THEN Responses ELSE {NoResponse} :
                LET r == AnalyzeEmotions(outcome, response_data) IN
                analysis' = [op |-> "analyze_emotions", lyrics |-> lyrics,
                             outcome |-> outcome, response |-> response_data,
                             sent |-> 1, transport |-> r.transport,
                             payload |-> r.payload, raised |-> r.raised,
                             result |-> r.result]
    /\ UNCHANGED <<now, limiterVars, cacheVars, sessionVars, pipelineVars>>

\* The content of a reply as text: a string is the sequence of its tokens.
\* An apostrophe in a token stands for a double quote.  The tokens are the
\* braces, the comma, the key happiness with its colon (bare or quoted), a number,
\* a string value that holds a word followed by a colon, the code-fence marker
\* of a JSON block and a word of prose.
Tokens == {"{", "}", ",", "happiness:", "'happiness':", "80", "'note: x'",
           "(fence)", "Here"}
MaxTokens == 5

\* the contents of the model hold at most one opening brace: no nested objects
ContentTexts ==
    {t \in UNION {[1..n -> Tokens] : n \in 1..MaxTokens} :
        Cardinality({i \in DOMAIN t : t[i] = "{"}) <= 1}

\* re.search(r'\{.*\}', content, re.DOTALL): from the first opening brace to the
\* last closing brace after it; <<>> when there is no match
JsonMatch(content) ==
    LET opens == {i \in DOMAIN content : content[i] = "{"}
        closes == {i \in DOMAIN content : content[i] = "}"}
        first == CHOOSE i \in opens : \A j \in opens : i <= j
        last == CHOOSE i \in closes : \A j \in closes : j <= i
    IN  IF opens = {} \/ closes = {} THEN <<>>
        ELSE IF first < last THEN SubSeq(content, first, last)
        ELSE <<>>

\* json.loads(json_str) succeeds: an object of members "key": value separated
\* by single commas, and nothing else
Loads(json_str) ==
    /\ Len(json_str) >= 2
    /\ json_str[1] = "{"
    /\ json_str[Len(json_str)] = "}"
    /\ LET inner == SubSeq(json_str, 2, Len(json_str) - 1) IN
       \/ inner = <<>>
       \/ /\ Len(inner) % 3 = 2
          /\ \A i \in DOMAIN inner :
                CASE i % 3 = 1 -> inner[i] = "'happiness':"
                  [] i % 3 = 2 -> inner[i] \in {"80", "'note: x'"}
                  [] OTHER     -> inner[i] = ","

\* the object json.loads returns, as a payload: the value of the last member
Loaded(json_str) ==
    LET value == json_str[Len(json_str) - 1] IN
    [NoPayload EXCEPT !.scores["happiness"] =
        IF Len(json_str) = 2 THEN Missing
        ELSE IF value = "80" THEN Num(80 * Unit)
        ELSE Text]

\* re.sub(r',(\s*[}\]])', r'\1', json_str)
RECURSIVE DropTrailingCommas(_)
DropTrailingCommas(json_str) ==
    IF json_str = <<>> THEN <<>>
    ELSE IF Len(json_str) >= 2 /\ json_str[1] = "," /\ json_str[2] = "}"
    THEN DropTrailingCommas(Tail(json_str))
    ELSE <<Head(json_str)>> \o DropTrailingCommas(Tail(json_str))

\* re.sub(r'(\w+):', r'"\1":', json_str) on one token
QuoteKeys(token) ==
    CASE token = "happiness:" -> "'happiness':"
      [] token = "'note: x'"  -> "''note': x'"
      [] OTHER                -> token

FixJsonFormatKeepsCommas(json_str) ==
    LET unfenced == SelectSeq(json_str, LAMBDA token : token # "(fence)")
    IN  [i \in DOMAIN unfenced |-> QuoteKeys(unfenced[i])]

\* _fix_json_format
FixJsonFormat(json_str) ==
    LET unfenced == SelectSeq(json_str, LAMBDA token : token # "(fence)")
        uncommaed == DropTrailingCommas(unfenced)
    IN  [i \in DOMAIN uncommaed |-> QuoteKeys(uncommaed[i])]

\* Lines 158-179 of _parse_analysis_response for a non-empty content: the
\* steps taken, in order, and the response shape they amount to
ParseContent(content) ==
    LET json_str == JsonMatch(content)
        fixed == FixJsonFormat(json_str)
    IN  IF json_str = <<>>
        THEN [steps |-> <<"_create_fallback_response">>, shape |-> "no_json",
              payload |-> NoPayload]
        ELSE IF Loads(json_str)
        THEN [steps |-> <<"json.loads">>, shape |-> "json",
              payload |-> Loaded(json_str)]
        ELSE IF Loads(fixed)
        THEN [steps |-> <<"json.loads", "_fix_json_format", "json.loads">>,
              shape |-> "repairable", payload |-> Loaded(fixed)]
        ELSE [steps |-> <<"json.loads", "_fix_json_format", "json.loads",
                          "_create_fallback_response">>,
              shape |-> "invalid_json", payload |-> NoPayload]

\* _parse_analysis_response for a response with one choice whose content is the
\* given text; none of the tokens holds a fallback keyword
_parse_analysis_response_text ==
    /\ analysis = NoAnalysis
    /\ \E content \in ContentTexts :
        LET c == ParseContent(content)
            response_data == [shape |-> c.shape, payload |-> c.payload,
                              content |-> NoContent]
            r == ParseAnalysisResponse(response_data)
        IN  analysis' = [op |-> "_parse_analysis_response", text |-> content,
                         response |-> response_data, steps |-> c.steps,
                         raised |-> r.raised, payload |-> r.payload]
    /\ UNCHANGED <<now, limiterVars, cacheVars, sessionVars, pipelineVars>>

\* batch_analyze: the lyrics of a batch, each with what the inference endpoint
\* does when its turn comes
BatchOutcomes == {"200", "429", "Timeout"}
BatchResponses ==
    {[shape |-> "no_choices", payload |-> NoPayload, content |-> NoContent]}
    \cup {[shape |-> "no_json", payload |-> NoPayload,
           content |-> [c \in CategorySet |-> IF c = k THEN "token" ELSE "absent"]] :
              k \in {"love", "sadness"}}
BatchItems ==
    {[lyrics |-> "blank", outcome |-> "none", response |-> NoResponse]}
    \cup [lyrics : {"text"}, outcome : {"200"}, response : BatchResponses]
    \cup [lyrics : {"text"}, outcome : BatchOutcomes \ {"200"}, response : {NoResponse}]

MaxBatch == 3
LyricsLists == UNION {[1..n -> BatchItems] : n \in 0..MaxBatch}

\* delay_between_requests, in seconds: none, or the default
DefaultDelay == 1
BatchDelays == {0, DefaultDelay}

\* self.analyze_emotions(lyrics) for one item of the batch
AnalyzeItem(item) ==
    IF item.lyrics = "blank"
    THEN [transport |-> "none", payload |-> NoPayload, raised |-> "AnalysisError",
          result |-> NoResult]
    ELSE AnalyzeEmotions(item.outcome, item.response)

SleptAlways(i, delay) == delay > 0

\* if i > 0 and delay_between_requests > 0, for the i-th item counted from 1
Slept(i, delay) == i > 1 /\ delay > 0

\* The loop of batch_analyze from the i-th item on, starting at time t with the
\* delay in ticks: the results appended (NoResult stands for None), the calls of
\* time.sleep and analyze_emotions in the order they are made, and the time at
\* the end.
RECURSIVE BatchAnalyze(_, _, _, _)
BatchAnalyze(lyrics_list, delay, i, t) ==
    IF i > Len(lyrics_list) THEN [results |-> <<>>, events |-> <<>>, tEnd |-> t]
    ELSE LET t1 == IF Slept(i, delay) THEN t + delay ELSE t
             r == AnalyzeItem(lyrics_list[i])
             rest == BatchAnalyze(lyrics_list, delay, i + 1, t1)
         IN  [results |-> <<IF r.raised = "none" THEN r.result ELSE NoResult>>
                          \o rest.results,
              events |-> (IF Slept(i, delay)
                          THEN <<[ev |-> "sleep", i |-> i, at |-> t]>> ELSE <<>>)
                         \o <<[ev |-> "analyze_emotions", i |-> i, at |-> t1]>>
                         \o rest.events,
              tEnd |-> rest.tEnd]

batch_analyze ==
    /\ analysis = NoAnalysis
    /\ \E lyrics_list \in LyricsLists, delay \in BatchDelays :
        LET b == BatchAnalyze(lyrics_list, delay * TicksPerSecond, 1, now) IN
        /\ b.tEnd <= MaxTime
        /\ now' = b.tEnd
        /\ analysis' = [op |-> "batch_analyze", lyrics_list |-> lyrics_list,
                        delay |-> delay * TicksPerSecond, started |-> now,
                        results |-> b.results, events |-> b.events]
    /\ UNCHANGED <<limiterVars, cacheVars, sessionVars, pipelineVars>>

-----------------------------------------------------------------------------
(* EmotionAnalysisService *)

\* song.lyrics.content of the songs of the model; "none" is a song without
\* lyrics
LyricsTexts == {"la", "lo", "li"}
SongIds == {1, 2}
Songs == [song_id : SongIds, lyrics : LyricsTexts \cup {"none"}]

Md5Constant(lyrics) == "d1"

\* _get_cache_key: hashlib.md5(lyrics.encode('utf-8')).hexdigest(); the three
\* texts of the model have three different digests
Md5(lyrics) ==
    CASE lyrics = "la" -> "d1"
      [] lyrics = "lo" -> "d2"
      [] OTHER -> "d3"

\* what the inference endpoint answers to analyze_song: a status code or
\* transport failure, and for a 200 a response without choices or a reply
\* without JSON that holds the keywords of one category
SongOutcomes == {"200", "429", "Timeout"}
SongContents ==
    {[c \in CategorySet |-> IF c = k THEN "token" ELSE "absent"] :
        k \in {"love", "sadness"}}
SongResponses ==
    {[shape |-> "no_choices", payload |-> NoPayload, content |-> NoContent]}
    \cup [shape : {"no_json"}, payload : {NoPayload}, content : SongContents]

NotAnalysed == [state |-> "none", result |-> NoResult, song_id |-> 0, ts |-> 0]

\* _cache[cache_key] = result
Put(c, key, value) ==
    [k \in DOMAIN c \cup {key} |-> IF k = key THEN value ELSE c[k]]

\* analyze_song(song)
analyze_song ==
    /\ songCall = NoSongCall
    /\ \E song \in Songs, outcome \in SongOutcomes :
        \E response_data \in IF outcome = "200" THEN SongResponses ELSE {NoResponse} :
        LET cache_key == Md5(song.lyrics)
            r == AnalyzeEmotions(outcome, response_data)
            known == IF song.lyrics = "none" THEN NotAnalysed
                     ELSE analysed[song.lyrics]
            done(hit, sent, raised, result) ==
                songCall' = [op |-> "analyze_song", song |-> song, hit |-> hit,
                             sent |-> sent, raised |-> raised, ret |-> result,
                             known |-> known]
        IN  IF song.lyrics = "none"
            THEN /\ done(FALSE, 0, "AnalysisError", NoResult)
                 /\ UNCHANGED <<resultCache, analysed>>
            ELSE IF use_cache /\ cache_key \in DOMAIN resultCache
            THEN /\ done(TRUE, 0, "none", resultCache[cache_key])
                 /\ UNCHANGED <<resultCache, analysed>>
            ELSE IF r.raised # "none"
            THEN /\ done(FALSE, 1, r.raised, NoResult)
                 /\ UNCHANGED <<resultCache, analysed>>
            ELSE /\ done(FALSE, 1, "none", r.result)
                 /\ IF use_cache
                    THEN /\ resultCache' = Put(resultCache, cache_key, r.result)
                         /\ analysed' = [analysed EXCEPT ![song.lyrics] =
                                [state |-> "stored", result |-> r.result,
                                 song_id |-> song.song_id, ts |-> now]]
                    ELSE UNCHANGED <<resultCache, analysed>>
    /\ UNCHANGED <<now, limiterVars, cacheVars, sessionVars, analysis>>
    /\ UNCHANGED <<fetch, cachedCall, use_cache>>

\* clear_cache()
clear_cache ==
    /\ songCall = NoSongCall
    /\ resultCache' = <<>>
    /\ analysed' = [l \in LyricsTexts |-> NotAnalysed]
    /\ songCall' = [op |-> "clear_cache"]
    /\ UNCHANGED <<now, limiterVars, cacheVars, sessionVars, analysis>>
    /\ UNCHANGED <<fetch, cachedCall, use_cache>>

\* create_analysis_service(use_cache=True), as main.py and streamlit_app.py
\* call it
InitService ==
    /\ use_cache = TRUE
    /\ resultCache = <<>>
    /\ analysed = [l \in LyricsTexts |-> NotAnalysed]
    /\ songCall = NoSongCall

InitPipeline ==
    /\ fetch = NoFetch
    /\ cachedCall = NoCachedCall
    /\ InitService

-----------------------------------------------------------------------------
(* GeniusAPIService.find_and_fetch_song *)

\* A string is modelled by the words str.split() finds in it.
Words == {"a", "A", "b"}
MaxWords == 2
Strings == UNION {[1..n -> Words] : n \in 0..MaxWords}

\* set(str.lower().split())
WordSet(str) == {Lower(str[i]) : i \in DOMAIN str}

SimilarityScoreByLength(str1, str2) ==
    IF str1 = <<>> /\ str2 = <<>> THEN [num |-> 1, den |-> 1]
    ELSE IF str1 = <<>> \/ str2 = <<>> THEN [num |-> 0, den |-> 1]
    ELSE [num |-> Cardinality(WordSet(str1) \cap WordSet(str2)),
          den |-> Len(str1) + Len(str2)]

\* _similarity_score: the quotient len(intersection) / len(union), kept as a
\* fraction
SimilarityScore(str1, str2) ==
    LET words1 == WordSet(str1)
        words2 == WordSet(str2)
    IN  IF words1 = {} /\ words2 = {} THEN [num |-> 1, den |-> 1]
        ELSE IF words1 = {} \/ words2 = {} THEN [num |-> 0, den |-> 1]
        ELSE [num |-> Cardinality(words1 \cap words2),
              den |-> Cardinality(words1 \cup words2)]

_similarity_score ==
    /\ fetch = NoFetch
    /\ \E str1 \in Strings, str2 \in Strings :
        fetch' = [op |-> "_similarity_score", str1 |-> str1, str2 |-> str2,
                  ret |-> SimilarityScore(str1, str2)]
    /\ UNCHANGED <<now, limiterVars, cacheVars, sessionVars, analysis>>
    /\ UNCHANGED <<cachedCall, songVars>>

\* title_match > 0.7, in tenths
MatchThresholdTenths == 7

ExceedsThreshold(score) == score.num * 10 > MatchThresholdTenths * score.den

\* the validated song_name and artist_name of the call
SongName == <<"A", "b">>
ArtistName == <<"X">>

\* the search results the catalog can return: title and artist of each, in the
\* order of the response
CandidateTitles == {<<"a", "b">>, <<"a", "b", "c">>}
CandidateArtists == {<<"x">>, <<"y">>}
Candidates == [title : CandidateTitles, artist_name : CandidateArtists]
MaxResults == 2
SearchResults == UNION {[1..n -> Candidates] : n \in 0..MaxResults}

IsMatch(song_name, artist_name, result) ==
    /\ ExceedsThreshold(SimilarityScore(song_name, result.title))
    /\ ExceedsThreshold(SimilarityScore(artist_name, result.artist_name))

BestMatchAlwaysFirst(song_name, artist_name, search_results) == 1

\* the loop over search_results with its break, and the fallback to
\* search_results[0]: the position of best_match
BestMatch(song_name, artist_name, search_results) ==
    IF \E i \in DOMAIN search_results :
           IsMatch(song_name, artist_name, search_results[i])
    THEN CHOOSE i \in DOMAIN search_results :
             /\ IsMatch(song_name, artist_name, search_results[i])
             /\ \A j \in 1..(i - 1) :
                   ~IsMatch(song_name, artist_name, search_results[j])
    ELSE 1

\* the song data of a 200 answer to the metadata request: complete, without the
\* fields SongMetadata needs, or without a url
DetailBodies == {"valid", "malformed", "no_url"}

\* what scrape_lyrics meets: a page with lyrics, a page without, or a failed GET
Pages == {"lyrics", "no_lyrics", "http_error"}

ScrapeNeverRaises(page) == "none"

\* scrape_lyrics(metadata.genius_url) inside the try block of
\* find_and_fetch_song: LyricsNotFoundError is raised again, NetworkError passes
ScrapeRaised(page) ==
    CASE page = "no_lyrics" -> "LyricsNotFoundError"
      [] page = "http_error" -> "NetworkError"
      [] OTHER -> "none"

\* the HTTP request of a _make_request run, if it sent one
Issued(r, kind) == IF r.sent = 1 THEN <<kind>> ELSE <<>>

\* find_and_fetch_song for valid names: r1 and body1 are the search request and
\* its body, r2 and body2 the metadata request and its body
FindAndFetchSong(r1, body1, search_results, r2, body2, page) ==
    LET searched == SearchRaised(r1, body1)
        best == BestMatch(SongName, ArtistName, search_results)
        detailed == DetailsRaised(r2, IF body2 = "malformed" THEN body2 ELSE "valid")
        first == Issued(r1, "search")
        second == first \o Issued(r2, "song")
    IN  IF searched # "none"
        THEN [raised |-> searched, issued |-> first, chosen |-> 0, song |-> 0]
        ELSE IF search_results = <<>>
        THEN [raised |-> "LyricsNotFoundError", issued |-> first, chosen |-> 0,
              song |-> 0]
        ELSE IF detailed # "none"
        THEN [raised |-> detailed, issued |-> second, chosen |-> best, song |-> 0]
        ELSE IF body2 = "no_url"
        THEN [raised |-> "ValueError", issued |-> second, chosen |-> best, song |-> 0]
        ELSE IF ScrapeRaised(page) # "none"
        THEN [raised |-> ScrapeRaised(page), issued |-> second \o <<"page">>,
              chosen |-> best, song |-> 0]
        ELSE [raised |-> "none", issued |-> second \o <<"page">>, chosen |-> best,
              song |-> best]

find_and_fetch_song ==
    /\ fetch = NoFetch
    /\ \E r1 \in Runs(requests, now) : \E body1 \in BodiesOf(r1) :
        LET found == SearchRaised(r1, body1) = "none" IN
        \E search_results \in IF found THEN SearchResults ELSE {<<>>} :
        LET more == found /\ search_results # <<>> IN
        \E r2 \in IF more THEN Runs(r1.reqs, r1.tEnd) ELSE {r1} :
        \E body2 \in IF more /\ r2.raised = "none" THEN DetailBodies ELSE {"valid"} :
        \E page \in IF more /\ r2.raised = "none" /\ body2 = "valid"
                    THEN Pages ELSE {"lyrics"} :
            LET f == FindAndFetchSong(r1, body1, search_results, r2, body2, page)
                stamps == r1.stamps \o (IF more THEN r2.stamps ELSE <<>>)
            IN  /\ Len(recorded) + Len(stamps) <= MaxRecords
                /\ requests' = r2.reqs
                /\ recorded' = recorded \o stamps
                /\ now' = r2.tEnd
                /\ fetch' = [op |-> "find_and_fetch_song",
                             searched |-> SearchRaised(r1, body1),
                             results |-> search_results, page |-> page,
                             raised |-> f.raised, issued |-> f.issued,
                             chosen |-> f.chosen, song |-> f.song]
    /\ UNCHANGED <<max_requests, call, cacheVars, sessionVars, analysis>>
    /\ UNCHANGED <<cachedCall, songVars>>

-----------------------------------------------------------------------------
(* CachedGeniusAPIService *)

\* the cache keys f"search:{query.lower()}:{limit}", f"song:{song_id}" and
\* f"lyrics:{genius_url}" of the calls of the model
SearchKeys == {"search:q1:10", "search:q2:10"}
SongKeys == {"song:1"}
LyricsKeys == {"lyrics:u1"}

\* the operation a key belongs to, read off its prefix
OperationOf(key) ==
    IF key \in SearchKeys THEN "search"
    ELSE IF key \in SongKeys THEN "song"
    ELSE "lyrics"

\* what a fetch can return for a key: the catalog need not answer twice alike
FetchedValues == {"v1", "v2"}

CachedStoreAlways(c, key, raised, value, t) == CacheSet(c, key, value, t)

\* result = super().method(...); self.cache.set(cache_key, result): an
\* exception of the fetch leaves the method before set
CachedStore(c, key, raised, value, t) ==
    IF raised # "none" THEN c ELSE CacheSet(c, key, value, t)

\* cached_result is not None: the value is returned, nothing else happens
CachedHit(op, key, g) ==
    /\ cache' = g.cache
    /\ cachedCall' = [op |-> op, key |-> key, hit |-> TRUE, sent |-> 0,
                      checked |-> FALSE, raised |-> "none", ret |-> g.ret]
    /\ UNCHANGED <<now, requests, recorded>>

\* a miss, answered by a fetch through _make_request, which begins with
\* rate_limiter.can_make_request()
CachedRequest(op, key, g, r, raised) ==
    \E value \in IF raised = "none" THEN FetchedValues ELSE {"None"} :
    \E t \in IF raised = "none" THEN Later(r.tEnd) ELSE {r.tEnd} :
        /\ Len(recorded) + Len(r.stamps) <= MaxRecords
        /\ requests' = r.reqs
        /\ recorded' = recorded \o r.stamps
        /\ now' = t
        /\ cache' = CachedStore(g.cache, key, raised, value, t)
        /\ cachedCall' = [op |-> op, key |-> key, hit |-> FALSE, sent |-> r.sent,
                          checked |-> TRUE, raised |-> raised, ret |-> value]

\* CachedGeniusAPIService.search_songs
cached_search_songs ==
    /\ cachedCall = NoCachedCall
    /\ \E key \in SearchKeys :
        LET g == CacheGet(cache, key, now) IN
        IF g.ret # "None" THEN CachedHit("search", key, g)
        ELSE \E r \in Runs(requests, now) : \E body \in BodiesOf(r) :
                CachedRequest("search", key, g, r, SearchRaised(r, body))
    /\ UNCHANGED <<max_requests, call, stored, hits, cacheCall>>
    /\ UNCHANGED <<sessionVars, analysis, fetch, songVars>>

\* CachedGeniusAPIService.get_song_details
cached_get_song_details ==
    /\ cachedCall = NoCachedCall
    /\ \E key \in SongKeys :
        LET g == CacheGet(cache, key, now) IN
        IF g.ret # "None" THEN CachedHit("song", key, g)
        ELSE \E r \in Runs(requests, now) : \E body \in BodiesOf(r) :
                CachedRequest("song", key, g, r, DetailsRaised(r, body))
    /\ UNCHANGED <<max_requests, call, stored, hits, cacheCall>>
    /\ UNCHANGED <<sessionVars, analysis, fetch, songVars>>

\* CachedGeniusAPIService.scrape_lyrics: the page is fetched without the
\* rate limiter
cached_scrape_lyrics ==
    /\ cachedCall = NoCachedCall
    /\ \E key \in LyricsKeys :
        LET g == CacheGet(cache, key, now) IN
        IF g.ret # "None" THEN CachedHit("lyrics", key, g)
        ELSE \E page \in Pages :
             LET raised == ScrapeRaised(page) IN
             \E value \in IF raised = "none" THEN FetchedValues ELSE {"None"} :
             \E t \in IF raised = "none" THEN Later(now) ELSE {now} :
                /\ now' = t
                /\ cache' = CachedStore(g.cache, key, raised, value, t)
                /\ cachedCall' = [op |-> "lyrics", key |-> key, hit |-> FALSE,
                                  sent |-> 1, checked |-> FALSE,
                                  raised |-> raised, ret |-> value]
                /\ UNCHANGED <<requests, recorded>>
    /\ UNCHANGED <<max_requests, call, stored, hits, cacheCall>>
    /\ UNCHANGED <<sessionVars, analysis, fetch, songVars>>

-----------------------------------------------------------------------------
(* GeniusAPIService.scrape_lyrics *)

\* lyrics_selectors, in the order of the list
Selectors == <<"div[class*=lyrics]", "div[data-lyrics-container=true]",
               "div[class*=Lyrics__Container]", "div[class*=SongPageGrid-sc]">>

\* A div of the page, by the selectors that match it and by whether its text,
\* after the unwanted nodes are removed, is longer than 50 characters.  The divs
\* of a page are numbered in document order.
MaxContainers == 2
Divs == [matches : SUBSET (1..Len(Selectors)), long : BOOLEAN]
Documents == UNION {[1..n -> Divs] : n \in 0..MaxContainers}

\* The page scrape_lyrics gets: a failed GET or an HTML document, whether the
\* fallback finds a div with more than 200 characters and a line break, and
\* whether _clean_lyrics leaves at least 20 characters.
ScrapedPages ==
    {[http |-> "error", divs |-> <<>>, fallback |-> FALSE, cleaned |-> "kept"]}
    \cup [http : {"ok"}, divs : Documents, fallback : BOOLEAN,
          cleaned : {"kept", "short"}]

\* for container in soup.select(selector): the texts appended for one selector,
\* each named by the number of its div
TextOfSelector(divs, selector) ==
    SelectSeq([i \in 1..Len(divs) |-> i],
              LAMBDA i : selector \in divs[i].matches /\ divs[i].long)

\* for selector in lyrics_selectors: lyrics_text after the selectors from the
\* given one on; no branch of the loops leaves them early
RECURSIVE TextOfSelectors(_, _)
TextOfSelectors(divs, selector) ==
    IF selector > Len(Selectors) THEN <<>>
    ELSE TextOfSelector(divs, selector) \o TextOfSelectors(divs, selector + 1)

\* the div the fallback takes its text from
FallbackDiv == 0

\* scrape_lyrics(genius_url) for a non-empty url: the exception raised and the
\* divs whose texts make up the lyrics, in the order of the text
ScrapeLyrics(page) ==
    LET selected == TextOfSelectors(page.divs, 1)
        lyrics_text == IF selected # <<>> THEN selected
                       ELSE IF page.fallback THEN <<FallbackDiv>>
                       ELSE <<>>
    IN  IF page.http = "error" THEN [raised |-> "NetworkError", text |-> <<>>]
        ELSE IF lyrics_text = <<>>
        THEN [raised |-> "LyricsNotFoundError", text |-> <<>>]
        ELSE IF page.cleaned = "short"
        THEN [raised |-> "LyricsNotFoundError", text |-> <<>>]
        ELSE [raised |-> "none", text |-> lyrics_text]

scrape_lyrics ==
    /\ fetch = NoFetch
    /\ \E page \in ScrapedPages :
        LET r == ScrapeLyrics(page) IN
        fetch' = [op |-> "scrape_lyrics", page |-> page, raised |-> r.raised,
                  text |-> r.text]
    /\ UNCHANGED <<now, limiterVars, cacheVars, sessionVars, analysis>>
    /\ UNCHANGED <<cachedCall, songVars>>

-----------------------------------------------------------------------------

InitLimiter ==
    /\ \E rate \in RateLimitConfigs : max_requests = MaxRequestsOf(rate)
    /\ requests = <<>>
    /\ recorded = <<>>
    /\ call = NoCall

InitCatalog ==
    /\ now = 0
    /\ InitLimiter
    /\ InitCache
    /\ InitSession
    /\ InitAnalysis
    /\ InitPipeline

NextCatalog ==
    \/ Tick
    \/ can_make_request
    \/ record_request
    \/ time_until_next_request
    \/ _make_request
    \/ search_songs
    \/ get_song_details

SpecCatalog == InitCatalog /\ [][NextCatalog]_vars

\* every component as constructed under the default configuration, nothing
\* called yet
InitDefault ==
    /\ now = 0
    /\ max_requests = MaxRequestsOf(DefaultRateLimit)
    /\ requests = <<>>
    /\ recorded = <<>>
    /\ call = NoCall
    /\ InitCache
    /\ InitSession
    /\ InitAnalysis
    /\ InitPipeline

NextCache ==
    \/ Tick
    \/ get
    \/ set
    \/ clear

SpecCache == InitDefault /\ [][NextCache]_vars

NextSession ==
    \/ Tick
    \/ NewSession
    \/ mark_completed
    \/ mark_failed
    \/ mark_cached

SpecSession == InitDefault /\ [][NextSession]_vars

NextCached ==
    \/ Tick
    \/ cached_search_songs
    \/ cached_get_song_details
    \/ cached_scrape_lyrics

SpecCached == InitDefault /\ [][NextCached]_vars

NextFetch ==
    \/ Tick
    \/ _similarity_score
    \/ find_and_fetch_song

SpecFetch == InitCatalog /\ [][NextFetch]_vars

\* EmotionAnalysisService(use_cache) with either setting
InitSong ==
    /\ now = 0
    /\ max_requests = MaxRequestsOf(DefaultRateLimit)
    /\ requests = <<>>
    /\ recorded = <<>>
    /\ call = NoCall
    /\ InitCache
    /\ InitSession
    /\ InitAnalysis
    /\ fetch = NoFetch
    /\ cachedCall = NoCachedCall
    /\ use_cache \in BOOLEAN
    /\ resultCache = <<>>
    /\ analysed = [l \in LyricsTexts |-> NotAnalysed]
    /\ songCall = NoSongCall

NextSong ==
    \/ Tick
    \/ analyze_song
    \/ clear_cache

SpecSong == InitSong /\ [][NextSong]_vars

NextAnalysis ==
    \/ Tick
    \/ from_api_response
    \/ EmotionAnalysisResult
    \/ _parse_analysis_response
    \/ _create_analysis_prompt
    \/ analyze_emotions

SpecAnalysis == InitDefault /\ [][NextAnalysis]_vars

NextBatch ==
    \/ Tick
    \/ batch_analyze

SpecBatch == InitDefault /\ [][NextBatch]_vars

\* the catalog client used through its public methods only
NextRequests ==
    \/ Tick
    \/ _make_request
    \/ search_songs
    \/ get_song_details

SpecRequests == InitCatalog /\ [][NextRequests]_vars

NextParse == _parse_analysis_response_text

SpecParse == InitDefault /\ [][NextParse]_vars

NextScrape ==
    \/ Tick
    \/ scrape_lyrics

SpecScrape == InitDefault /\ [][NextScrape]_vars

-----------------------------------------------------------------------------
(* Claims about the rate limiter and the catalog client, under SpecCatalog *)

\* the number of recorded timestamps younger than the window at time t
Young(t) == Cardinality({i \in DOMAIN recorded : t - recorded[i] < W})

\* C2: after any sequence of record_request calls, requests and time advances,
\* can_make_request answers true exactly when fewer than max_requests of all the
\* timestamps ever recorded are younger than the window at the time of the call.
C2_AdmitsIffFewerThanLimit ==
    call.op = "can_make_request" => (call.ret <=> Young(call.t) < max_requests)

\* C2 witness: a refusal after an older timestamp has already left the window
C2_Witness ==
    /\ call.op = "can_make_request"
    /\ ~call.ret
    /\ max_requests >= 1
    /\ Len(requests) < Len(recorded)

\* C3: for a limiter with a positive limit, time_until_next_request never raises
\* and never returns a negative value; judged at the time it returns, it returns
\* 0 when a request is admissible and a value in (0, W] when max_requests
\* timestamps lie inside the window.
C3_WaitWithinWindow ==
    (call.op = "time_until_next_request" /\ max_requests >= 1) =>
        /\ call.raised = "none"
        /\ call.wait >= 0
        /\ Young(now) < max_requests => call.wait = 0
        /\ Young(now) >= max_requests => (call.wait >= 1 /\ call.wait <= W)

\* C4: a _make_request that finds the limiter not admissible raises
\* RateLimitError with the wait as retry_after, sends no HTTP request and records
\* no timestamp.
C4_NotAdmissibleRaisesRateLimit ==
    (call.op = "_make_request" /\ ~call.admissible) =>
        /\ call.raised = "RateLimitError"
        /\ call.retry_after = IntSeconds(call.wait)
        /\ call.sent = 0
        /\ call.recorded = 0

\* C9: an AuthenticationError, RateLimitError or NetworkError raised by
\* _make_request reaches the caller of search_songs / get_song_details as the
\* same class, after a single HTTP request.
C9_TransportErrorsUnchanged ==
    (/\ call.op \in {"search_songs", "get_song_details"}
     /\ call.transport \in {"AuthenticationError", "RateLimitError", "NetworkError"}) =>
        /\ call.raised = call.transport
        /\ call.sent <= 1

-----------------------------------------------------------------------------
(* Claims about the response cache, under SpecCache *)

\* C5: a get(key) after set(key, v), with no eviction or clear in between,
\* returns v while the entry is younger than the TTL; once the entry is older than
\* the TTL every get(key) is a miss, and the entry is gone from the cache.
C5_GetWithinTtl ==
    (cacheCall.op = "get" /\ stored[cacheCall.key].state = "set") =>
        LET h == stored[cacheCall.key] IN
        /\ now - h.ts < Ttl => cacheCall.ret = h.value
        /\ now - h.ts > Ttl =>
               (cacheCall.ret = "None" /\ cacheCall.key \notin KeysOf(cache))

\* C5 witness: a get on a stored entry that has outlived the TTL
C5_Witness ==
    /\ cacheCall.op = "get"
    /\ stored[cacheCall.key].state = "set"
    /\ now - stored[cacheCall.key].ts > Ttl
    /\ cacheCall.ret = "None"

\* C6: a set on a cache holding max_size entries removes one entry that has
\* the smallest insertion timestamp and nothing else (besides storing its own
\* key), and a get leaves the timestamp of every entry it keeps as it was.
C6_EvictsOldestInsertion ==
    [][/\ (cacheCall'.op = "set" /\ Len(cache) >= MaxSize) =>
            \E i \in DOMAIN cache :
                /\ \A j \in DOMAIN cache : cache[i].ts <= cache[j].ts
                /\ KeysOf(cache') = (KeysOf(cache) \ {cache[i].key}) \cup {cacheCall'.key}
                /\ \A j \in DOMAIN cache :
                       (j # i /\ cache[j].key # cacheCall'.key) =>
                           \E m \in DOMAIN cache' : cache'[m] = cache[j]
       /\ cacheCall'.op = "get" =>
            \A m \in DOMAIN cache' : \E j \in DOMAIN cache : cache[j] = cache'[m]
      ]_vars

\* C6 witness: a set at capacity has evicted an entry that had been read
C6_Witness ==
    /\ cacheCall.op = "set"
    /\ cacheCall.full
    /\ cacheCall.evictedWasRead
    /\ cacheCall.evicted # cacheCall.key

-----------------------------------------------------------------------------
(* Claims about AnalysisSession, under SpecSession *)

TerminalStatuses == {"completed", "failed", "cached"}

\* C7: after any sequence of mark_completed, mark_failed and mark_cached
\* calls, a completed or cached session holds the result passed to the last call
\* and no error message, and a failed session holds the error message passed to
\* the last call and no result.
C7_TerminalStateHoldsLastArgument ==
    /\ session.status \in {"completed", "cached"} =>
        /\ sessionCall.op = (IF session.status = "completed"
                             THEN "mark_completed" ELSE "mark_cached")
        /\ session.analysis_result = sessionCall.arg
        /\ session.error_message = "None"
    /\ session.status = "failed" =>
        /\ sessionCall.op = "mark_failed"
        /\ session.error_message = sessionCall.arg
        /\ session.analysis_result = "None"

\* C7 witness: a session marked failed some time after it was created
C7_Witness ==
    /\ session.status = "failed"
    /\ session.completed_at > session.started_at
    /\ sessionCall.op = "mark_failed"

\* C8: a session changes status only along pending -> in_progress ->
\* {completed, failed, cached}, and a mark_completed, mark_failed or mark_cached
\* call on a session in a terminal status leaves its status, result and error
\* message as they were.
C8_TerminalStatesAreFinal ==
    [][sessionCall'.op \in {"mark_completed", "mark_failed", "mark_cached"} =>
        /\ session.status \in TerminalStatuses =>
            /\ session'.status = session.status
            /\ session'.analysis_result = session.analysis_result
            /\ session'.error_message = session.error_message
        /\ session'.status # session.status =>
            \/ session.status = "pending" /\ session'.status = "in_progress"
            \/ session.status = "in_progress" /\ session'.status \in TerminalStatuses
      ]_vars

-----------------------------------------------------------------------------
(* Claims about the result model and the analysis service, under SpecAnalysis *)

\* the largest score of a built result
MaxScoreOf(result) ==
    CHOOSE m \in {result.emotion_scores[c] : c \in CategorySet} :
        \A c \in CategorySet : result.emotion_scores[c] <= m

\* C1: every result that from_api_response, the constructor or
\* analyze_emotions succeeds in building has exactly the five categories as score
\* keys, every score in [0, 100], a confidence in [0, 1], and as dominant emotion
\* a category holding the largest score, whatever the payload named.
C1_BuiltResultIsWellFormed ==
    (/\ analysis.op \in {"from_api_response", "EmotionAnalysisResult", "analyze_emotions"}
     /\ analysis.raised = "none") =>
        LET result == analysis.result IN
        /\ DOMAIN result.emotion_scores = CategorySet
        /\ \A c \in CategorySet :
              0 <= result.emotion_scores[c] /\ result.emotion_scores[c] <= 100 * Unit
        /\ 0 <= result.overall_confidence /\ result.overall_confidence <= Unit
        /\ result.dominant_emotion \in CategorySet
        /\ result.emotion_scores[result.dominant_emotion] = MaxScoreOf(result)

\* C1 witness: a result built from a payload that names a category which does
\* not hold the largest score
C1_Witness ==
    /\ analysis.op = "from_api_response"
    /\ analysis.raised = "none"
    /\ analysis.payload.dominant_emotion = "sadness"
    /\ analysis.result.emotion_scores["sadness"] < MaxScoreOf(analysis.result)
    /\ analysis.result.dominant_emotion # "sadness"

\* the parsed object lacks dominant_emotion and holds a score float() rejects
ScoresUnusable(response_data) ==
    /\ response_data.shape \in JsonShapes
    /\ response_data.payload.dominant_emotion = "missing"
    /\ \E c \in CategorySet : response_data.payload.scores[c] = Text

\* C10 as stated: _parse_analysis_response never raises
C10_ParseNeverRaises ==
    analysis.op = "_parse_analysis_response" => analysis.raised = "none"

\* C10 amended: _parse_analysis_response raises nothing but AnalysisError; it
\* raises when the response has no choices, a choice without a message, empty
\* content, or a parsed object without dominant_emotion whose scores are not all
\* numeric; in every other case (content without JSON, JSON that cannot be
\* repaired, a parsed object) it returns a payload in which the five scores,
\* confidence and dominant_emotion are all present.
C10_ParseReturnsOrRaisesAnalysisError ==
    analysis.op = "_parse_analysis_response" =>
        /\ analysis.raised \in {"none", "AnalysisError"}
        /\ analysis.raised = "AnalysisError" <=>
              \/ analysis.response.shape \in ErrorShapes
              \/ ScoresUnusable(analysis.response)
        /\ analysis.raised = "none" =>
              /\ \A c \in CategorySet : analysis.payload.scores[c] # Missing
              /\ analysis.payload.confidence # Missing
              /\ analysis.payload.dominant_emotion # "missing"

\* C10 witness: a response without choices, answered with AnalysisError
C10_Witness ==
    /\ analysis.op = "_parse_analysis_response"
    /\ analysis.response.shape = "no_choices"
    /\ analysis.raised = "AnalysisError"

\* a payload that from_api_response refuses: a score that is not a number or
\* lies outside [0, 100], a confidence that is not a number or lies outside
\* [0, 1], or a dominant_emotion that is not a string
PayloadRefused(p) ==
    \/ \E c \in CategorySet :
          \/ p.scores[c] = Text
          \/ p.scores[c].kind = "num"
               /\ ~(0 <= p.scores[c].v /\ p.scores[c].v <= 100 * Unit)
    \/ p.dominant_emotion = "not_a_string"
    \/ p.confidence = Text
    \/ p.confidence.kind = "num" /\ ~(0 <= p.confidence.v /\ p.confidence.v <= Unit)

\* C11 as stated: analyze_emotions fails with AnalysisError exactly when the
\* lyrics are blank, and then without having sent a request
C11_AnalysisErrorOnlyForBlankLyrics ==
    analysis.op = "analyze_emotions" =>
        /\ analysis.raised = "AnalysisError" <=> analysis.lyrics = "blank"
        /\ analysis.lyrics = "blank" => analysis.sent = 0

\* C11 amended: blank lyrics fail with AnalysisError before any request, and
\* an AnalysisError without a request happens for blank lyrics only; with other
\* lyrics and an HTTP 200 answer, analyze_emotions either returns a result or
\* fails with AnalysisError, and it fails exactly when the response has no
\* choices, no message or empty content, or carries a JSON object that
\* from_api_response refuses.
C11_AnalysisErrorForBlankOrUnusable ==
    analysis.op = "analyze_emotions" =>
        /\ analysis.lyrics = "blank" =>
              (analysis.raised = "AnalysisError" /\ analysis.sent = 0)
        /\ (analysis.raised = "AnalysisError" /\ analysis.sent = 0) =>
              analysis.lyrics = "blank"
        /\ (analysis.lyrics # "blank" /\ analysis.outcome = "200") =>
              /\ analysis.raised \in {"none", "AnalysisError"}
              /\ analysis.raised = "AnalysisError" <=>
                    \/ analysis.response.shape \in ErrorShapes
                    \/ /\ analysis.response.shape \in JsonShapes
                       /\ PayloadRefused(analysis.response.payload)

\* C11 witness: lyrics with text, an HTTP 200 answer without choices, and
\* AnalysisError after the request was sent
C11_Witness ==
    /\ analysis.op = "analyze_emotions"
    /\ analysis.lyrics = "text"
    /\ analysis.outcome = "200"
    /\ analysis.sent = 1
    /\ analysis.response.shape = "no_choices"
    /\ analysis.raised = "AnalysisError"

-----------------------------------------------------------------------------
(* Claims about find_and_fetch_song and _similarity_score, under SpecFetch *)

IsPrefix(s, t) == Len(s) <= Len(t) /\ s = SubSeq(t, 1, Len(s))

\* C12: the HTTP requests of one find_and_fetch_song call are an initial part
\* of search, metadata, page; a search that returns no candidate ends in
\* LyricsNotFoundError with the search as the only request; a page from which no
\* lyrics can be extracted ends in LyricsNotFoundError; and a call that raises
\* returns no Song.
C12_SearchThenMetadataThenPage ==
    fetch.op = "find_and_fetch_song" =>
        /\ IsPrefix(fetch.issued, <<"search", "song", "page">>)
        /\ (fetch.searched = "none" /\ fetch.results = <<>>) =>
              (fetch.raised = "LyricsNotFoundError" /\ fetch.issued = <<"search">>)
        /\ (Len(fetch.issued) = 3 /\ fetch.page = "no_lyrics") =>
              fetch.raised = "LyricsNotFoundError"
        /\ fetch.raised # "none" => fetch.song = 0
        /\ fetch.raised = "none" => fetch.issued = <<"search", "song", "page">>

\* C12 witness: all three requests were made and the page held no lyrics
C12_Witness ==
    /\ fetch.op = "find_and_fetch_song"
    /\ fetch.issued = <<"search", "song", "page">>
    /\ fetch.page = "no_lyrics"
    /\ fetch.raised = "LyricsNotFoundError"
    /\ fetch.song = 0

\* both similarities of a search result to the requested names exceed 0.7
ClearsBoth(result) ==
    LET t == SimilarityScore(SongName, result.title)
        a == SimilarityScore(ArtistName, result.artist_name)
    IN  10 * t.num > 7 * t.den /\ 10 * a.num > 7 * a.den

\* C13: the candidate find_and_fetch_song goes on with clears both
\* thresholds whenever some search result does, and is the first search result
\* when none does.
C13_ConfidentMatchOrFirst ==
    (fetch.op = "find_and_fetch_song" /\ fetch.chosen # 0) =>
        /\ fetch.chosen \in DOMAIN fetch.results
        /\ (\E i \in DOMAIN fetch.results : ClearsBoth(fetch.results[i])) =>
              ClearsBoth(fetch.results[fetch.chosen])
        /\ (\A i \in DOMAIN fetch.results : ~ClearsBoth(fetch.results[i])) =>
              fetch.chosen = 1

\* C13 witness: the first search result misses a threshold, the second clears
\* both and is the one used
C13_Witness ==
    /\ fetch.op = "find_and_fetch_song"
    /\ Len(fetch.results) = 2
    /\ ~ClearsBoth(fetch.results[1])
    /\ fetch.chosen = 2
    /\ fetch.song = 2

\* C14: _similarity_score(a, b) is |A n B| / |A u B| over the lower-cased
\* word sets when both are non-empty, lies in [0, 1], equals
\* _similarity_score(b, a), is 1 when both word sets are empty and 0 when exactly
\* one is.
C14_JaccardOfWordSets ==
    fetch.op = "_similarity_score" =>
        LET A == {Lower(fetch.str1[i]) : i \in DOMAIN fetch.str1}
            B == {Lower(fetch.str2[i]) : i \in DOMAIN fetch.str2}
            ret == fetch.ret
        IN  /\ ret.den > 0 /\ 0 <= ret.num /\ ret.num <= ret.den
            /\ (A # {} /\ B # {}) =>
                  ret.num * Cardinality(A \cup B) = Cardinality(A \cap B) * ret.den
            /\ ret = SimilarityScore(fetch.str2, fetch.str1)
            /\ (A = {} /\ B = {}) => ret.num = ret.den
            /\ ((A = {}) # (B = {})) => ret.num = 0

\* C14 witness: two strings that share one word up to case and differ in another
C14_Witness ==
    /\ fetch.op = "_similarity_score"
    /\ fetch.str1 = <<"A", "b">>
    /\ fetch.str2 = <<"a">>
    /\ fetch.ret = [num |-> 1, den |-> 2]

-----------------------------------------------------------------------------
(* Claims about EmotionAnalysisService, under SpecSong *)

\* C15: with caching enabled, an analyze_song call for lyrics whose result
\* was stored (and not cleared since) returns that result without an inference
\* request, whichever song carries the lyrics; and a call answered from the cache
\* gets the result stored for exactly its own lyrics text.
C15_SameLyricsSameResult ==
    (songCall.op = "analyze_song" /\ use_cache) =>
        /\ songCall.known.state = "stored" =>
              /\ songCall.raised = "none"
              /\ songCall.sent = 0
              /\ songCall.ret = songCall.known.result
        /\ songCall.hit =>
              /\ songCall.known.state = "stored"
              /\ songCall.ret = songCall.known.result

\* C15 witness: a song answered from the result another song stored
C15_Witness ==
    /\ songCall.op = "analyze_song"
    /\ songCall.hit
    /\ songCall.sent = 0
    /\ songCall.known.song_id # songCall.song.song_id

\* C17: the analysis-result cache never holds more than max_size entries,
\* and a call is answered from it only while the entry is no older than the TTL.
C17_ResultCacheBounded ==
    /\ Cardinality(DOMAIN resultCache) <= MaxSize
    /\ (songCall.op = "analyze_song" /\ songCall.hit) =>
          now - songCall.known.ts <= Ttl

-----------------------------------------------------------------------------
(* Claims about CachedGeniusAPIService, under SpecCached *)

\* C16: a cached search, metadata or lyrics call never removes a cached
\* entry that belongs to a different operation.
C16_NoEvictionAcrossOperations ==
    [][cachedCall'.op # "none" =>
          \A i \in DOMAIN cache :
              OperationOf(cache[i].key) # cachedCall'.op =>
                  cache[i].key \in KeysOf(cache')
      ]_vars

\* C18: a cached call that finds its key returns the cached value, sends no
\* request and leaves the cache as it is; a call whose fetch raises leaves no
\* entry under its key; and an entry appears or changes only under the key of a
\* call that missed and whose fetch, after one request, returned the value now
\* stored.
C18_StoredOnlyAfterSuccessfulMiss ==
    [][IF cachedCall'.op = "none"
       THEN \A i \in DOMAIN cache' : \E j \in DOMAIN cache : cache[j] = cache'[i]
       ELSE LET c == cachedCall' IN
            /\ c.hit =>
                  /\ c.sent = 0
                  /\ c.raised = "none"
                  /\ \E j \in DOMAIN cache :
                        cache[j].key = c.key /\ cache[j].value = c.ret
                  /\ cache' = cache
            /\ c.raised # "none" => c.key \notin KeysOf(cache')
            /\ \A i \in DOMAIN cache' :
                  (\A j \in DOMAIN cache : cache[j] # cache'[i]) =>
                      /\ cache'[i].key = c.key
                      /\ ~c.hit
                      /\ c.raised = "none"
                      /\ c.sent = 1
                      /\ cache'[i].value = c.ret
      ]_vars

\* C18 witness: a miss whose request failed, and no entry under the key
C18_Witness ==
    /\ cachedCall.op # "none"
    /\ ~cachedCall.hit
    /\ cachedCall.sent = 1
    /\ cachedCall.raised # "none"
    /\ cachedCall.key \notin KeysOf(cache)
    /\ Len(cache) > 0

-----------------------------------------------------------------------------
(* Claims about the fallback payload, under SpecAnalysis *)

\* C19: the fallback payload gives a category 50 when the text holds one of
\* its keywords as a word of its own and 20 otherwise, names a category with the
\* largest score as dominant_emotion and has confidence 0.6.
C19_FallbackCountsWholeTokens ==
    (/\ analysis.op = "_parse_analysis_response"
     /\ analysis.response.shape \in FallbackShapes) =>
        /\ analysis.raised = "none"
        /\ \A c \in CategorySet :
              analysis.payload.scores[c] =
                  Num(IF analysis.response.content[c] = "token"
                      THEN 50 * Unit ELSE 20 * Unit)
        /\ \A c \in CategorySet :
              analysis.payload.scores[c].v
                  <= analysis.payload.scores[analysis.payload.dominant_emotion].v
        /\ 10 * analysis.payload.confidence.v = 6 * Unit

\* the result with 20 for four categories, 50 for love, dominant love and
\* confidence 0.6
LoveResult ==
    [emotion_scores |-> [c \in CategorySet |->
                            IF c = "love" THEN 50 * Unit ELSE 20 * Unit],
     dominant_emotion |-> "love",
     overall_confidence |-> (6 * Unit) \div 10]

-----------------------------------------------------------------------------
(* Claims about the errors of analyze_emotions, under SpecAnalysis *)

\* a payload with a numeric score outside [0, 100] or a numeric confidence
\* outside [0, 1]
OutOfRange(p) ==
    \/ \E c \in CategorySet :
          p.scores[c].kind = "num"
            /\ ~(0 <= p.scores[c].v /\ p.scores[c].v <= 100 * Unit)
    \/ p.confidence.kind = "num" /\ ~(0 <= p.confidence.v /\ p.confidence.v <= Unit)

\* C21 as stated: when the payload that _parse_analysis_response returns has
\* a score outside [0, 100] or a confidence outside [0, 1], analyze_emotions
\* returns no result and the caller gets a ValidationError
C21_OutOfRangeRaisesValidationError ==
    (/\ analysis.op = "analyze_emotions"
     /\ analysis.sent = 1
     /\ analysis.transport = "none"
     /\ OutOfRange(analysis.payload)) =>
        (analysis.raised = "ValidationError" /\ analysis.result = NoResult)

\* C21 amended: in that case analyze_emotions returns no result and the
\* caller gets an AnalysisError; no ValidationError ever leaves analyze_emotions
C21_OutOfRangeRaisesAnalysisError ==
    analysis.op = "analyze_emotions" =>
        /\ analysis.raised # "ValidationError"
        /\ (analysis.sent = 1 /\ analysis.transport = "none"
              /\ OutOfRange(analysis.payload)) =>
              (analysis.raised = "AnalysisError" /\ analysis.result = NoResult)

\* C21 witness: a parsed JSON object whose scores are all within range and
\* whose confidence is above 1, refused with AnalysisError
C21_Witness ==
    /\ analysis.op = "analyze_emotions"
    /\ analysis.outcome = "200"
    /\ analysis.response.shape = "json"
    /\ analysis.payload.confidence = Num(Unit + 1)
    /\ \A c \in CategorySet : analysis.payload.scores[c] = Num(80 * Unit - 4)
    /\ analysis.raised = "AnalysisError"
    /\ analysis.result = NoResult

-----------------------------------------------------------------------------
(* Claims about the inference prompt, under SpecAnalysis *)

-----------------------------------------------------------------------------
(* Claims about lyrics extraction, under SpecScrape *)

\* the div is a candidate: some selector matches it and its text is long enough
IsCandidate(div) == div.matches # {} /\ div.long

\* the best selector that matches a candidate of the page
FirstSelector(divs) ==
    CHOOSE s \in 1..Len(Selectors) :
        /\ \E i \in DOMAIN divs : IsCandidate(divs[i]) /\ s \in divs[i].matches
        /\ \A i \in DOMAIN divs : IsCandidate(divs[i]) =>
              \A q \in divs[i].matches : s <= q

\* C23: when a selector matches a div with more than 50 characters of text,
\* the extracted lyrics are the text of exactly one div, once: the first div in
\* document order among the candidates matched by the best selector.
C23_TextOfFirstCandidateOnly ==
    (/\ fetch.op = "scrape_lyrics"
     /\ fetch.raised = "none"
     /\ \E i \in DOMAIN fetch.page.divs : IsCandidate(fetch.page.divs[i])) =>
        LET divs == fetch.page.divs
            s == FirstSelector(divs)
        IN  /\ Len(fetch.text) = 1
            /\ IsCandidate(divs[fetch.text[1]])
            /\ s \in divs[fetch.text[1]].matches
            /\ \A i \in 1..(fetch.text[1] - 1) :
                  ~(IsCandidate(divs[i]) /\ s \in divs[i].matches)

-----------------------------------------------------------------------------
(* Claims about batch_analyze, under SpecBatch *)

\* C24: batch_analyze calls analyze_emotions once for every item, in input
\* order and one after the other; with a positive delay it sleeps for the delay
\* right before every call except the first; it returns one entry per item, the
\* result of that item or None when its analysis failed, and goes on after a
\* failure.
C24_BatchIsSequentialAndComplete ==
    analysis.op = "batch_analyze" =>
        LET lyrics_list == analysis.lyrics_list
            events == analysis.events
            calls == SelectSeq(events, LAMBDA e : e.ev = "analyze_emotions")
        IN  /\ Len(analysis.results) = Len(lyrics_list)
            /\ Len(calls) = Len(lyrics_list)
            /\ \A i \in DOMAIN calls : calls[i].i = i
            /\ \A i \in DOMAIN lyrics_list :
                  analysis.results[i] =
                      IF AnalyzeItem(lyrics_list[i]).raised = "none"
                      THEN AnalyzeItem(lyrics_list[i]).result ELSE NoResult
            /\ \A k \in DOMAIN events : k > 1 => events[k - 1].at <= events[k].at
            /\ \A k \in DOMAIN events :
                  events[k].ev = "analyze_emotions" =>
                      IF events[k].i > 1 /\ analysis.delay > 0
                      THEN /\ events[k - 1].ev = "sleep"
                           /\ events[k].at >= events[k - 1].at + analysis.delay
                      ELSE k = 1 \/ events[k - 1].ev = "analyze_emotions"
            /\ events # <<>> => events[1].ev = "analyze_emotions"

\* C24 witness: a batch whose first analysis fails at the endpoint, whose
\* second has blank lyrics and whose third succeeds, with the default delay
C24_Witness ==
    /\ analysis.op = "batch_analyze"
    /\ analysis.delay > 0
    /\ Len(analysis.lyrics_list) = 3
    /\ analysis.lyrics_list[1].outcome = "429"
    /\ analysis.lyrics_list[2].lyrics = "blank"
    /\ analysis.results = <<NoResult, NoResult, LoveResult>>
    /\ now >= analysis.started + 2 * analysis.delay

-----------------------------------------------------------------------------
(* Claims about the repair of the reply text, under SpecParse *)

\* the reply {happiness: 80,}: a bareword key and a trailing comma
BarewordReply == <<"{", "happiness:", "80", ",", "}">>

\* C25: for a content with a brace-delimited part, the parser first loads
\* that part as it is; only if that fails it repairs the text and loads it once
\* more; only if that fails too it builds the keyword fallback.  A content
\* whose brace-delimited part is {happiness: 80,} is recovered by the repair
\* with happiness = 80 and does not reach the fallback.
C25_StrictThenRepairThenFallback ==
    (analysis.op = "_parse_analysis_response" /\ JsonMatch(analysis.text) # <<>>) =>
        LET json_str == JsonMatch(analysis.text)
            steps == analysis.steps
            strict == Loads(json_str)
            repaired == Loads(FixJsonFormat(json_str))
        IN  /\ steps[1] = "json.loads"
            /\ strict <=> Len(steps) = 1
            /\ ~strict =>
                  /\ Len(steps) >= 3
                  /\ steps[2] = "_fix_json_format"
                  /\ steps[3] = "json.loads"
            /\ (~strict /\ repaired) <=> Len(steps) = 3
            /\ (~strict /\ ~repaired) <=>
                  (Len(steps) = 4 /\ steps[4] = "_create_fallback_response")
            /\ Len(steps) <= 4
            /\ json_str = BarewordReply =>
                  /\ Len(steps) = 3
                  /\ analysis.raised = "none"
                  /\ analysis.payload.scores["happiness"] = Num(80 * Unit)

\* C25 witness: the reply {happiness: 80,} parsed after one repair
C25_Witness ==
    /\ analysis.op = "_parse_analysis_response"
    /\ analysis.text = BarewordReply
    /\ analysis.steps = <<"json.loads", "_fix_json_format", "json.loads">>
    /\ analysis.payload.scores["happiness"] = Num(80 * Unit)
    /\ analysis.payload.dominant_emotion = "happiness"

-----------------------------------------------------------------------------
(* Claims about the rate window of the catalog client, under SpecRequests *)

\* the recorded timestamps inside the window of W ticks that ends at time t
InWindowAt(t) == {i \in DOMAIN recorded : 0 <= t - recorded[i] /\ t - recorded[i] < W}

\* C26: when every request goes through _make_request, no window of W
\* ticks ending at or before the current time holds more than max_requests
\* recorded timestamps.
C26_WindowNeverExceedsLimit ==
    \A t \in 0..now : Cardinality(InWindowAt(t)) <= max_requests

\* C26 witness: more requests recorded than the limit allows in one window,
\* the last one just now, and the window that ends now is full
C26_Witness ==
    /\ call.op \in {"_make_request", "search_songs", "get_song_details"}
    /\ call.recorded = 1
    /\ max_requests >= 1
    /\ Len(recorded) > max_requests
    /\ Cardinality(InWindowAt(now)) = max_requests

-----------------------------------------------------------------------------
(* Claims about the size of the response cache, under SpecCache *)

\* C27: after any sequence of set, get and clear calls the cache holds at
\* most max_size entries, each under a key of its own.
C27_CacheNeverExceedsMaxSize ==
    /\ Len(cache) <= MaxSize
    /\ Cardinality(KeysOf(cache)) = Len(cache)

\* C27 witness: a set of a new key on a full cache, and the cache full again
C27_Witness ==
    /\ cacheCall.op = "set"
    /\ cacheCall.full
    /\ cacheCall.evicted \notin {cacheCall.key, "none"}
    /\ cacheCall.evicted \notin KeysOf(cache)
    /\ Len(cache) = MaxSize

\* C30: a set on a key that a full cache already holds replaces the value and
\* the timestamp of that key, keeps every other entry and leaves the cache full.
C30_ResetOfPresentKeyEvictsNothing ==
    [][(/\ cacheCall'.op = "set"
        /\ Len(cache) = MaxSize
        /\ cacheCall'.key \in KeysOf(cache)) =>
            /\ Len(cache') = MaxSize
            /\ KeysOf(cache') = KeysOf(cache)
            /\ \A j \in DOMAIN cache :
                   cache[j].key # cacheCall'.key =>
                       \E m \in DOMAIN cache' : cache'[m] = cache[j]
            /\ \E m \in DOMAIN cache' :
                   cache'[m].key = cacheCall'.key /\ cache'[m].ts = now
      ]_vars

-----------------------------------------------------------------------------
(* Claims about the requests of the cached catalog client, under SpecCached *)

\* C28 as stated: every HTTP request of a search, metadata or lyrics call
\* comes after an admission check of the rate limiter and adds one timestamp to
\* the rate window.
C28_EveryRequestCheckedAndRecorded ==
    [][(cachedCall'.op # "none" /\ cachedCall'.sent = 1) =>
          /\ cachedCall'.checked
          /\ Len(recorded') = Len(recorded) + 1
      ]_vars

\* C28 amended: a search or metadata request comes after an admission check
\* and adds one timestamp when an HTTP response comes back, whatever its status,
\* and none when the request times out or fails to connect; the request for the
\* lyrics page is sent without an admission check and leaves the rate window as
\* it is; a call that sends nothing adds nothing.
C28_ApiResponsesAreRecorded ==
    [][cachedCall'.op # "none" =>
          LET c == cachedCall'
              api == c.op \in {"search", "song"}
              answered == api /\ c.sent = 1 /\ c.raised # "NetworkError"
          IN  /\ (api /\ c.sent = 1) => c.checked
              /\ IsPrefix(recorded, recorded')
              /\ Len(recorded') = Len(recorded) + (IF answered THEN 1 ELSE 0)
              /\ answered => /\ now <= recorded'[Len(recorded')]
                              /\ recorded'[Len(recorded')] <= now'
              /\ c.op = "lyrics" =>
                    (~c.checked /\ requests' = requests /\ recorded' = recorded)
      ]_vars

\* C28 witness: a search whose request got no response, after an earlier
\* request that was recorded
C28_Witness ==
    /\ cachedCall.op = "search"
    /\ cachedCall.sent = 1
    /\ cachedCall.raised = "NetworkError"
    /\ Len(recorded) = 1

-----------------------------------------------------------------------------
(* Claims about successful sessions, under SpecSession *)

\* C29: is_successful is true exactly when the session holds a result and no
\* error message, and a history that holds the session counts it as successful
\* in exactly that case.
C29_SuccessfulIffResultAndNoError ==
    LET holds == session.analysis_result # "None" /\ session.error_message = "None"
    IN  /\ IsSuccessful(session) <=> holds
        /\ SuccessfulSessionsCount(<<session>>) = (IF holds THEN 1 ELSE 0)
        /\ SuccessRate(<<session>>) = [num |-> IF holds THEN 1 ELSE 0, den |-> 1]

====
